---- MODULE Spec2Model ----
(***************************************************************************)
(* A model of alcyone.py: a Job is packaged, uploaded, submitted to the    *)
(* scheduler with sbatch, polled with sacct and its log downloaded.        *)
(* Text is modelled by strings, handled character by character with Len,   *)
(* SubSeq and \o so that parsing and matching are computed as the code     *)
(* computes them.  Every remote operation (scp, ssh) and every sleep is    *)
(* appended to `log`, the trace of the current top-level call.             *)
(***************************************************************************)
EXTENDS Integers, Sequences, FiniteSets, TLC

VARIABLES
    pc,           \* line of alcyone.py the current call is at ("idle", "done")
    call,         \* method the caller invoked: "run", "submit_job", "poll_job"
    calls,        \* number of top-level calls made on the Job so far
    function,     \* Job.function: [name, source, prints, returns]
    job_id,       \* Job.job_id: None or the digits sbatch acknowledged
    timeout_sec,  \* Job.timeout_sec
    poll_delay,   \* Job.poll_delay
    stdout,       \* local `stdout` of submit_job / poll_job
    result,       \* local `result` of poll_job: Unbound, a list of rows, a row
    attempt,      \* iterations of the poll loop started so far
    local_file,   \* content of local_path after scp_from, or Missing
    raised,       \* exception that ended the call, "none" if none
    errmsg,       \* message carried by the exception
    retval,       \* value the call returned
    log,          \* remote operations and sleeps of the current call, in order
    accepted,     \* the scheduler: batch jobs it has accepted from this Job
    ids,          \* two Jobs side by side: Job.id of each
    lines_at,     \* two Jobs side by side: line each has reached
    remote,       \* two Jobs side by side: [path, job] for every remote file written
    fw_table,     \* parse_fw alone: the table the text was printed from
    fw_string,    \* parse_fw alone: its argument `string`
    fw_out        \* parse_fw alone: what it returned or raised

vars == <<pc, call, calls, function, job_id, timeout_sec, poll_delay, stdout,
          result, attempt, local_file, raised, errmsg, retval, log, accepted,
          ids, lines_at, remote, fw_table, fw_string, fw_out>>

-----------------------------------------------------------------------------
(* Bounds of the model. *)

MaxTimeout == 3      \* timeout_sec ranges over 0..MaxTimeout
MaxPollDelay == 2    \* poll_delay ranges over 0..MaxPollDelay
MaxCalls == 2        \* top-level calls the caller makes on the Job
MaxFailures == 1     \* remote operations that fail within one call
MaxRows == 2         \* data lines of a table handed to parse_fw alone

-----------------------------------------------------------------------------
(* Values that stand for Python's None, an unbound local and a missing file *)

None == "None"
Unbound == "<unbound>"
Missing == "<missing>"
NoSource == "<no source>"

Min(a, b) == IF a < b THEN a ELSE b

-----------------------------------------------------------------------------
(* String primitives of Python used by the code. *)

Whitespace == {" ", "\t", "\n", "\r"}
Digits == {"0", "1", "2", "3", "4", "5", "6", "7", "8", "9"}

CharAt(s, i) == SubSeq(s, i, i)

\* s[a:b] for 0 <= a, 0 <= b: slicing past the end yields what is there
Slice(s, a, b) == SubSeq(s, a + 1, Min(b, Len(s)))

\* str.startswith
startswith(s, p) == Len(s) >= Len(p) /\ SubSeq(s, 1, Len(p)) = p

\* str.strip(): drop leading and trailing whitespace
strip(s) ==
    LET keep == {i \in 1..Len(s) : CharAt(s, i) \notin Whitespace}
    IN  IF keep = {} THEN ""
        ELSE LET a == CHOOSE i \in keep : \A j \in keep : i <= j
                 b == CHOOSE i \in keep : \A j \in keep : i >= j
             IN  SubSeq(s, a, b)

\* index of the first occurrence of character c in s at or after `from`, 0 if none
Find(s, c, from) ==
    LET at == {i \in from..Len(s) : CharAt(s, i) = c}
    IN  IF at = {} THEN 0 ELSE CHOOSE i \in at : \A j \in at : i <= j

\* str.split(sep) for a one-character separator: empty fields are kept
RECURSIVE SplitFrom(_, _, _)
SplitFrom(s, sep, from) ==
    LET k == Find(s, sep, from)
    IN  IF k = 0 THEN <<SubSeq(s, from, Len(s))>>
        ELSE <<SubSeq(s, from, k - 1)>> \o SplitFrom(s, sep, k + 1)

split(s, sep) == SplitFrom(s, sep, 1)

-----------------------------------------------------------------------------
(* parse_fw_row and parse_fw: the fixed-width table parser. *)

\* the body of the loop `for width in widths`, `total` being the running offset
RECURSIVE parse_fw_row_from(_, _, _)
parse_fw_row_from(line, widths, total) ==
    IF widths = <<>> THEN <<>>
    ELSE LET width == Head(widths)
             entry == Slice(line, total, total + width)
         IN  <<strip(entry)>> \o parse_fw_row_from(line, Tail(widths), total + width)

parse_fw_row(line, widths) == parse_fw_row_from(line, widths, 0)

\* dict(zip(keys, values)): a later duplicate key overwrites an earlier one
dict_zip(keys, values) ==
    LET n == Min(Len(keys), Len(values))
    IN  [k \in {keys[i] : i \in 1..n} |->
            values[CHOOSE i \in 1..n : keys[i] = k /\ \A j \in 1..n : keys[j] = k => j <= i]]

\* widths = [len(i) + 1 for i in lines[1].split(' ')]
fw_widths(line) == LET toks == split(line, " ") IN [i \in 1..Len(toks) |-> Len(toks[i]) + 1]

\* parse_fw: [err |-> exception raised or "none", rows |-> list of dicts]
parse_fw(string) ==
    LET lines == split(string, "\n")
    IN  IF Len(lines) < 2 THEN [err |-> "IndexError", rows |-> <<>>]   \* lines[1]
        ELSE LET widths == fw_widths(lines[2])
                 columns == parse_fw_row(lines[1], widths)
             IN  [err |-> "none",
                  rows |-> [r \in 1..(Len(lines) - 2) |->
                               dict_zip(columns, parse_fw_row(lines[r + 2], widths))]]

-----------------------------------------------------------------------------
(* The row filter of poll_job, line 121. *)

\* a filter that accepts any identifier beginning with the job's
row_matches_prefix(row, jid) == startswith(row["JobID"], jid)

\* str(i['JobID']) == str(self.job_id), both operands being strings
row_matches(row, jid) == row["JobID"] = jid

\* [i for i in result if ...]: KeyError when a row has no 'JobID' key
filter_rows(rows, jid) ==
    IF \E r \in 1..Len(rows) : "JobID" \notin DOMAIN rows[r]
    THEN [err |-> "KeyError", rows |-> <<>>]
    ELSE [err |-> "none", rows |-> SelectSeq(rows, LAMBDA row : row_matches(row, jid))]

-----------------------------------------------------------------------------
(* re.match(r'Submitted batch job (\d+)', stdout), line 108. *)

AckPrefix == "Submitted batch job "

\* the longest run of digits of s starting at index `from`
RECURSIVE DigitRun(_, _)
DigitRun(s, from) ==
    IF from <= Len(s) /\ CharAt(s, from) \in Digits
    THEN CharAt(s, from) \o DigitRun(s, from + 1)
    ELSE ""

\* the pattern with (\d) in place of (\d+): the first digit only
re_match_ack_one_digit(s) ==
    IF startswith(s, AckPrefix) /\ DigitRun(s, Len(AckPrefix) + 1) # ""
    THEN CharAt(s, Len(AckPrefix) + 1)
    ELSE None

\* match.group(1), or None when the pattern does not match at the start
re_match_ack(s) ==
    IF startswith(s, AckPrefix) /\ DigitRun(s, Len(AckPrefix) + 1) # ""
    THEN DigitRun(s, Len(AckPrefix) + 1)
    ELSE None

-----------------------------------------------------------------------------
(* Names derived in Job.__init__ and submit_job. *)

JobUid == "U1"                 \* self.id, a uuid4
User == "alger"
RemoteDir == "/tmp"

PathJoin(dir, name) == dir \o "/" \o name

out_filename(uid) == "alcyone_out_" \o uid \o ".dat"
\* a script name that leaves the identifier out
remote_name_shared(uid) == "alcyone_in_" \o ".py"

remote_name(uid) == "alcyone_in_" \o uid \o ".py"
slurm_remote_input_name(uid) == remote_name(uid) \o ".slurm"
submit_script(uid) == "sbatch " \o PathJoin(RemoteDir, slurm_remote_input_name(uid))
poll_command(jid) == "sacct -j " \o jid
slurm_log_path(jid) == "/home/" \o User \o "/slurm-" \o jid \o ".out"

write_delay == 10              \* self.write_delay

\* the remote path the runner of lines 132-136 writes the result to
OutPath == PathJoin(RemoteDir, out_filename(JobUid))

\* the content of the remote file at `path` once the job has run: the runner
\* has written what the function returned to OutPath, slurm has written what
\* the job printed to its log
RemoteFile(path) == IF path = OutPath THEN function.returns ELSE function.prints

-----------------------------------------------------------------------------
(* What the environment can supply: the function handed to Job, and what   *)
(* sbatch and sacct print on the login node.                               *)

Functions ==
    { [name |-> "test", prints |-> "Printing! Hello!\n", returns |-> "Hello world!",
       source |-> "def test():\n    import sys\n    print('Printing! Hello!')\n"
                  \o "    sys.stdout.flush()\n    return b'Hello world!'\n"],
      [name |-> "method", prints |-> "", returns |-> "",
       source |-> "    def method(self):\n        return b''\n"],
      [name |-> "typed", prints |-> "", returns |-> "",
       source |-> NoSource] }   \* typed at the prompt: no file

\* decimal numeral of a natural number
RECURSIVE Dec(_)
Dec(n) == IF n < 10 THEN SubSeq("0123456789", n + 1, n + 1)
          ELSE Dec(n \div 10) \o SubSeq("0123456789", (n % 10) + 1, (n % 10) + 1)

FirstBatchId == 77

\* what sbatch may print when the scheduler has accepted n jobs of this Job:
\* the acknowledgment of the next identifier, or a refusal
SubmitOutputs(n) ==
    { "Submitted batch job " \o Dec(FirstBatchId + n) \o "\n",
      "Permission denied\n",
      "" }

TableHead == "JobID    State     \n-------- ---------\n"

\* a field padded with spaces to the width of its column
Pad(field, width) == field \o SubSeq("            ", 1, width - Len(field))

\* a data line of the table
Row(id, state) == Pad(id, 9) \o Pad(state, 10) \o "\n"

\* what `sacct -j jid` may print
StatusOutputs(jid) ==
    { "",
      SubSeq(TableHead, 1, Len(TableHead) - 1),
      TableHead,
      TableHead \o Row("99", "RUNNING") \o Row(jid \o ".batch", "COMPLETED"),
      TableHead \o Row(jid, "COMPLETED"),
      TableHead \o Row(jid, "RUNNING") \o Row(jid \o ".batch", "RUNNING") \o Row(jid, "COMPLETED"),
      "Job      State     \n-------- ---------\n" \o Row(jid, "COMPLETED") }

\* the identifiers sbatch can acknowledge, the responses sacct can print for
\* them, and what parse_fw returns for each response, computed once
JobIds == {Dec(FirstBatchId + n) : n \in 0..MaxCalls}
Responses == UNION {StatusOutputs(jid) : jid \in JobIds}
ParseOf == [out \in Responses |-> parse_fw(out)]

\* parse_fw(string), looked up when string is one of the responses
Parsed(string) == IF string \in Responses THEN ParseOf[string] ELSE parse_fw(string)

-----------------------------------------------------------------------------
(* Entries of the log. *)

Op(op, arg, ok, out, secs) == [op |-> op, arg |-> arg, ok |-> ok, out |-> out, secs |-> secs]

IsUpload(e)   == e.op = "scp_to"
IsSubmit(e)   == e.op = "ssh" /\ startswith(e.arg, "sbatch ")
IsQuery(e)    == e.op = "ssh" /\ startswith(e.arg, "sacct ")
IsDownload(e) == e.op = "scp_from"
IsSleep(e)    == e.op = "sleep"
IsRemote(e)   == e.op \in {"scp_to", "ssh", "scp_from"}

NumQueries == Len(SelectSeq(log, IsQuery))
NumSubmits == Len(SelectSeq(log, IsSubmit))

Failed(e) == IsRemote(e) /\ ~e.ok

\* scp or ssh may exit nonzero; the model lets MaxFailures of them fail per call
MayBe(ok) == ok \/ Len(SelectSeq(log, Failed)) < MaxFailures

-----------------------------------------------------------------------------
(* Values of the local `result` and of the value returned by a call. *)

ResultUnbound  == [kind |-> "unbound", val |-> <<>>]
ResultList(l)  == [kind |-> "list", val |-> l]
ResultRow(r)   == [kind |-> "row", val |-> <<r>>]

RetNothing     == [kind |-> "nothing", val |-> <<>>]   \* the call has not returned
RetNone        == [kind |-> "None", val |-> <<>>]
RetRow(r)      == [kind |-> "row", val |-> <<r>>]
RetText(t)     == [kind |-> "text", val |-> <<t>>]

\* the budget rounded up instead of down
PollBudgetCeil == (timeout_sec + poll_delay - 1) \div poll_delay

\* the budget with one iteration too many
PollBudgetInclusive == (timeout_sec \div poll_delay) + 1

\* range(self.timeout_sec // self.poll_delay)
PollBudget == timeout_sec \div poll_delay

-----------------------------------------------------------------------------
(* Initial state: a constructed Job, before any call. *)

\* the other specifications at rest
NoJobs  == ids = <<>> /\ lines_at = <<>> /\ remote = {}
NoTable == fw_table = <<>> /\ fw_string = "" /\ fw_out = <<>>

Init ==
    /\ pc = "idle"
    /\ call = "none"
    /\ calls = 0
    /\ function \in Functions
    /\ job_id = None
    /\ timeout_sec \in 0..MaxTimeout
    /\ poll_delay \in 0..MaxPollDelay
    /\ stdout = ""
    /\ result = ResultUnbound
    /\ attempt = 0
    /\ local_file = Missing
    /\ raised = "none"
    /\ errmsg = ""
    /\ retval = RetNothing
    /\ log = <<>>
    /\ accepted = 0
    /\ NoJobs /\ NoTable

\* frames of the actions
Attrs  == <<function, timeout_sec, poll_delay>>
Caller == <<call, calls>>
Sched  == <<accepted>>
TwoJobs == <<ids, lines_at, remote>>
Parsing == <<fw_table, fw_string, fw_out>>
Aside  == <<TwoJobs, Parsing>>     \* state of the other specifications

Running == pc \notin {"idle", "done"} /\ raised = "none"
Ended   == pc = "done" \/ raised # "none"

\* raise exc(msg) at the current line: nothing catches it, the call ends
Raise(exc, msg) == raised' = exc /\ errmsg' = msg /\ pc' = pc /\ retval' = retval

\* return v to the caller
Return(v) == raised' = raised /\ errmsg' = errmsg /\ pc' = "done" /\ retval' = v

\* fall through to line l
Goto(l) == raised' = raised /\ errmsg' = errmsg /\ pc' = l /\ retval' = retval

-----------------------------------------------------------------------------
(* The caller invokes a method of the Job. *)

\* a call that starts by forgetting the scheduler identifier
CallClearsId(m) ==
    /\ pc = "idle" \/ Ended
    /\ calls < MaxCalls
    /\ call' = m
    /\ calls' = calls + 1
    /\ pc' = (CASE m = "run" -> "L129" [] m = "submit_job" -> "L92" [] m = "poll_job" -> "L116")
    /\ stdout' = ""
    /\ result' = ResultUnbound
    /\ attempt' = 0
    /\ local_file' = Missing
    /\ raised' = "none"
    /\ errmsg' = ""
    /\ retval' = RetNothing
    /\ log' = <<>>
    /\ job_id' = None
    /\ UNCHANGED <<Attrs, Aside, Sched>>

FirstLine(m) == CASE m = "run" -> "L129" [] m = "submit_job" -> "L92" [] m = "poll_job" -> "L116"

Call(m) ==
    /\ pc = "idle" \/ Ended
    /\ calls < MaxCalls
    /\ call' = m
    /\ calls' = calls + 1
    /\ pc' = FirstLine(m)
    /\ stdout' = ""
    /\ result' = ResultUnbound
    /\ attempt' = 0
    /\ local_file' = Missing
    /\ raised' = "none"
    /\ errmsg' = ""
    /\ retval' = RetNothing
    /\ log' = <<>>
    /\ UNCHANGED <<Attrs, Aside, Sched, job_id>>

-----------------------------------------------------------------------------
(* Job.run, lines 129-144: package the function and upload the script. *)

\* packaging without the assertion of line 130
PackageUnchecked ==
    /\ Running /\ pc = "L129"
    /\ IF function.source = NoSource
       THEN Raise("OSError", "could not get source code")
       ELSE Goto("L144")
    /\ UNCHANGED <<Caller, Attrs, Aside, Sched, job_id, stdout, result, attempt, local_file, log>>

\* lines 129-137: inspect.getsource, the assertion, the runner appended
Package ==
    /\ Running /\ pc = "L129"
    /\ IF function.source = NoSource
       THEN Raise("OSError", "could not get source code")
       ELSE IF ~startswith(function.source, "def")
            THEN Raise("AssertionError", "")
            ELSE Goto("L144")
    /\ UNCHANGED <<Caller, Attrs, Aside, Sched, job_id, stdout, result, attempt, local_file, log>>

\* the upload of the script followed at once by the sbatch command, the
\* slurm script never uploaded
UploadInputSkipsSlurm(ok) ==
    /\ MayBe(ok)
    /\ Running /\ pc = "L144"
    /\ log' = Append(log, Op("scp_to", PathJoin(RemoteDir, remote_name(JobUid)), ok, "", 0))
    /\ Goto("L107")
    /\ UNCHANGED <<Caller, Attrs, Aside, Sched, job_id, stdout, result, attempt, local_file>>

\* lines 139-145: scp_to(file.name, self.remote_name); the exit status of scp
\* is not looked at (line 77), then submit_job is entered
UploadInput(ok) ==
    /\ MayBe(ok)
    /\ Running /\ pc = "L144"
    /\ log' = Append(log, Op("scp_to", PathJoin(RemoteDir, remote_name(JobUid)), ok, "", 0))
    /\ Goto("L92")
    /\ UNCHANGED <<Caller, Attrs, Aside, Sched, job_id, stdout, result, attempt, local_file>>

-----------------------------------------------------------------------------
(* Job.submit_job, lines 91-113. *)

\* lines 92-102: render the slurm script and scp_to it
UploadSlurm(ok) ==
    /\ MayBe(ok)
    /\ Running /\ pc = "L92"
    /\ log' = Append(log, Op("scp_to", PathJoin(RemoteDir, slurm_remote_input_name(JobUid)), ok, "", 0))
    /\ Goto("L107")
    /\ UNCHANGED <<Caller, Attrs, Aside, Sched, job_id, stdout, result, attempt, local_file>>

\* a submit_job that issues sbatch again when the output does not match
SubmitOutcomeRetries(out) ==
    LET match == re_match_ack(out)
    IN  IF match = None
        THEN Goto("L107") /\ job_id' = job_id
        ELSE /\ job_id' = match
             /\ IF call = "run" THEN Goto("L116") ELSE Return(RetNone)

\* what submit_job does with the output of sbatch, lines 108-113
SubmitOutcome(out) ==
    LET match == re_match_ack(out)
    IN  IF match = None
        THEN /\ Raise("RuntimeError", "Batch submission failed with: " \o out)
             /\ job_id' = job_id
        ELSE /\ job_id' = match
             /\ IF call = "run" THEN Goto("L116") ELSE Return(RetNone)

\* lines 104-113: ssh the sbatch command, match the acknowledgment
Submit(out, ok) ==
    /\ MayBe(ok)
    /\ Running /\ pc = "L107"
    /\ log' = Append(log, Op("ssh", submit_script(JobUid), ok, out, 0))
    /\ stdout' = out
    /\ SubmitOutcome(out)
    /\ accepted' = IF startswith(out, AckPrefix) THEN accepted + 1 ELSE accepted
    /\ UNCHANGED <<Caller, Attrs, Aside, result, attempt, local_file>>

-----------------------------------------------------------------------------
(* Job.poll_job, lines 115-126. *)

\* poll_job without the assertion of line 116
PollEnterUnasserted ==
    /\ Running /\ pc = "L116"
    /\ IF poll_delay = 0
       THEN Raise("ZeroDivisionError", "integer division or modulo by zero")
       ELSE Goto("L118")
    /\ UNCHANGED <<Caller, Attrs, Aside, Sched, job_id, stdout, result, attempt, local_file, log>>

\* lines 116-118: the assertion, the command, range(...) evaluated
PollEnter ==
    /\ Running /\ pc = "L116"
    /\ IF job_id = None
       THEN Raise("AssertionError", "")
       ELSE IF poll_delay = 0
            THEN Raise("ZeroDivisionError", "integer division or modulo by zero")
            ELSE Goto("L118")
    /\ UNCHANGED <<Caller, Attrs, Aside, Sched, job_id, stdout, result, attempt, local_file, log>>

\* an iteration that leaves the loop on a response without a row of the job
QueryOutcomeStopsOnEmpty(out) ==
    LET parsed == Parsed(out)
        kept   == filter_rows(parsed.rows, job_id)
    IN  IF parsed.err # "none"
        THEN Raise(parsed.err, "") /\ result' = result
        ELSE IF kept.err # "none"
             THEN Raise(kept.err, "JobID") /\ result' = ResultList(parsed.rows)
             ELSE result' = ResultList(kept.rows) /\ Goto("L125")

\* what one iteration does with the output of sacct, lines 120-123
QueryOutcome(out) ==
    LET parsed == Parsed(out)
        kept   == filter_rows(parsed.rows, job_id)
    IN  IF parsed.err # "none"
        THEN Raise(parsed.err, "") /\ result' = result
        ELSE IF kept.err # "none"
             THEN Raise(kept.err, "JobID") /\ result' = ResultList(parsed.rows)
             ELSE /\ result' = ResultList(kept.rows)
                  /\ IF Len(kept.rows) > 0 THEN Goto("L125") ELSE Goto("L124")

\* lines 118-123: one iteration of the loop up to the break test
PollQuery(out, ok) ==
    /\ MayBe(ok)
    /\ Running /\ pc = "L118"
    /\ attempt < PollBudget
    /\ attempt' = attempt + 1
    /\ log' = Append(log, Op("ssh", poll_command(job_id), ok, out, 0))
    /\ stdout' = out
    /\ QueryOutcome(out)
    /\ UNCHANGED <<Caller, Attrs, Aside, Sched, job_id, local_file>>

\* a loop that goes back to the next query without sleeping
PollSleepSkipped ==
    /\ Running /\ pc = "L124"
    /\ Goto("L118")
    /\ UNCHANGED <<Caller, Attrs, Aside, Sched, job_id, stdout, result, attempt, local_file, log>>

\* line 124: time.sleep(self.poll_delay)
PollSleep ==
    /\ Running /\ pc = "L124"
    /\ log' = Append(log, Op("sleep", "poll_delay", TRUE, "", poll_delay))
    /\ Goto("L118")
    /\ UNCHANGED <<Caller, Attrs, Aside, Sched, job_id, stdout, result, attempt, local_file>>

\* line 118: the range is exhausted, the loop ends without a break
PollExhausted ==
    /\ Running /\ pc = "L118"
    /\ attempt >= PollBudget
    /\ Goto("L125")
    /\ UNCHANGED <<Caller, Attrs, Aside, Sched, job_id, stdout, result, attempt, local_file, log>>

\* result[0] in place of result[-1]
FirstRow(rows) == rows[1]

\* result[-1]
LastRow(rows) == rows[Len(rows)]

\* lines 125-126: result = result[-1]; return result
PollReturn ==
    /\ Running /\ pc = "L125"
    /\ IF result.kind = "unbound"
       THEN Raise("UnboundLocalError", "result") /\ result' = result
       ELSE IF result.val = <<>>
            THEN Raise("IndexError", "list index out of range") /\ result' = result
            ELSE /\ result' = ResultRow(LastRow(result.val))
                 /\ IF call = "run" THEN Goto("L152") ELSE Return(RetRow(LastRow(result.val)))
    /\ UNCHANGED <<Caller, Attrs, Aside, Sched, job_id, stdout, attempt, local_file, log>>

-----------------------------------------------------------------------------
(* Job.run, lines 149-155: wait, download the slurm log, return its text. *)

\* the download issued as soon as the poller has returned, no settle delay
SettleSleepSkipped ==
    /\ Running /\ pc = "L152"
    /\ Goto("L153")
    /\ UNCHANGED <<Caller, Attrs, Aside, Sched, job_id, stdout, result, attempt, local_file, log>>

\* line 152: time.sleep(self.write_delay)
SettleSleep ==
    /\ Running /\ pc = "L152"
    /\ log' = Append(log, Op("sleep", "write_delay", TRUE, "", write_delay))
    /\ Goto("L153")
    /\ UNCHANGED <<Caller, Attrs, Aside, Sched, job_id, stdout, result, attempt, local_file>>

\* line 153: scp_from; the exit status of scp is not looked at (line 82), a
\* failed copy leaves no file at local_path
Download(ok) ==
    /\ MayBe(ok)
    /\ Running /\ pc = "L153"
    /\ log' = Append(log, Op("scp_from", slurm_log_path(job_id), ok, "", 0))
    /\ local_file' = IF ok THEN RemoteFile(slurm_log_path(job_id)) ELSE Missing
    /\ Goto("L154")
    /\ UNCHANGED <<Caller, Attrs, Aside, Sched, job_id, stdout, result, attempt>>

\* a read that returns the empty text when the copy left no file
ReadLocalEmptyOnMissing ==
    /\ Running /\ pc = "L154"
    /\ Return(RetText(IF local_file = Missing THEN "" ELSE local_file))
    /\ UNCHANGED <<Caller, Attrs, Aside, Sched, job_id, stdout, result, attempt, local_file, log>>

\* lines 154-155: open(local_path), return f.read()
ReadLocal ==
    /\ Running /\ pc = "L154"
    /\ IF local_file = Missing
       THEN Raise("FileNotFoundError", "No such file or directory")
       ELSE Return(RetText(local_file))
    /\ UNCHANGED <<Caller, Attrs, Aside, Sched, job_id, stdout, result, attempt, local_file, log>>

-----------------------------------------------------------------------------

Next ==
    \/ \E m \in {"run", "submit_job", "poll_job"} : Call(m)
    \/ Package
    \/ \E fails \in BOOLEAN : UploadInput(~fails)
    \/ \E fails \in BOOLEAN : UploadSlurm(~fails)
    \/ \E out \in SubmitOutputs(accepted), fails \in BOOLEAN : Submit(out, ~fails)
    \/ PollEnter
    \/ \E out \in StatusOutputs(job_id), fails \in BOOLEAN : PollQuery(out, ~fails)
    \/ PollSleep
    \/ PollExhausted
    \/ PollReturn
    \/ SettleSleep
    \/ \E fails \in BOOLEAN : Download(~fails)
    \/ ReadLocal

Spec == Init /\ [][Next]_vars

TypeOK ==
    /\ pc \in {"idle", "done", "L129", "L144", "L92", "L107", "L116", "L118",
               "L124", "L125", "L152", "L153", "L154"}
    /\ call \in {"none", "run", "submit_job", "poll_job"}
    /\ calls \in 0..MaxCalls
    /\ attempt \in 0..MaxTimeout
    /\ accepted \in 0..MaxCalls
    /\ NoJobs /\ NoTable

-----------------------------------------------------------------------------
(* Two Jobs side by side.  Each is constructed with its own uuid4 (line 64) *)
(* and taken through the steps of run() that write remote files: the two   *)
(* uploads, the sbatch command, and the remote execution of the script,    *)
(* whose runner writes the output file.  The steps of the two Jobs         *)
(* interleave freely.                                                      *)

Uids == {"U1", "U2", "U3"}     \* values uuid4 may return
JobNos == {1, 2}

\* the one-Job model, constructed and left alone
OneJob == <<pc, call, calls, function, job_id, timeout_sec, poll_delay, stdout,
            result, attempt, local_file, raised, errmsg, retval, log, accepted>>

Constructed ==
    /\ pc = "idle" /\ call = "none" /\ calls = 0
    /\ function = CHOOSE f \in Functions : f.name = "test"
    /\ job_id = None /\ timeout_sec = MaxTimeout /\ poll_delay = 1
    /\ stdout = "" /\ result = ResultUnbound /\ attempt = 0
    /\ local_file = Missing /\ raised = "none" /\ errmsg = ""
    /\ retval = RetNothing /\ log = <<>> /\ accepted = 0

InitJobs ==
    /\ Constructed
    /\ ids \in {f \in [JobNos -> Uids] : f[1] # f[2]}
    /\ lines_at = [j \in JobNos |-> "L144"]
    /\ remote = {}
    /\ NoTable

\* job j writes the remote file `name` of the remote directory and goes to line l
Writes(j, name, l) ==
    /\ remote' = remote \cup {[path |-> PathJoin(RemoteDir, name), job |-> j]}
    /\ lines_at' = [lines_at EXCEPT ![j] = l]
    /\ UNCHANGED <<ids, OneJob, Parsing>>

\* line 144: scp_to(file.name, self.remote_name)
JobUploadInput(j) == lines_at[j] = "L144" /\ Writes(j, remote_name(ids[j]), "L92")

\* line 102: scp_to(file.name, slurm_remote_input_name)
JobUploadSlurm(j) == lines_at[j] = "L92" /\ Writes(j, slurm_remote_input_name(ids[j]), "L107")

\* line 107: the sbatch command; it writes no file named by the Job
JobSubmit(j) ==
    /\ lines_at[j] = "L107"
    /\ lines_at' = [lines_at EXCEPT ![j] = "queued"]
    /\ UNCHANGED <<ids, remote, OneJob, Parsing>>

\* the scheduler runs the script: the runner of lines 132-136 writes the result
JobExecutes(j) == lines_at[j] = "queued" /\ Writes(j, out_filename(ids[j]), "ran")

NextJobs ==
    \E j \in JobNos :
        \/ JobUploadInput(j)
        \/ JobUploadSlurm(j)
        \/ JobSubmit(j)
        \/ JobExecutes(j)

SpecJobs == InitJobs /\ [][NextJobs]_vars

-----------------------------------------------------------------------------
(* parse_fw alone, lines 37-55.  A table of the two columns JobID and      *)
(* State is printed the way sacct prints it: a header line, a line of      *)
(* dashes, one line per row with every field padded to its column, the     *)
(* lines joined by newlines.  The text may end with a newline or not, and  *)
(* its last data line may have lost its end or carry extra characters.     *)

FwIds == {"77", "78.batch"}
FwStates == {"COMPLETED", "RUNNING", ""}
ShortLen == 12       \* length a data line cut short is left with
LongTail == "XX"     \* characters a data line too long carries past its end

\* a data line of the table, without its newline
DataLine(id, state) == Pad(id, 9) \o Pad(state, 10)

FwTables ==
    { t \in [rows : UNION {[1..n -> FwIds \X FwStates] : n \in 0..MaxRows},
              newline : BOOLEAN,
              damage : {"none", "short", "long"}] :
        t.damage # "none" => Len(t.rows) > 0 }

\* the data lines of table t, the damage done to the last one
FwLines(t) ==
    [i \in 1..Len(t.rows) |->
        LET l == DataLine(t.rows[i][1], t.rows[i][2])
        IN  IF i < Len(t.rows) \/ t.damage = "none" THEN l
            ELSE IF t.damage = "short" THEN SubSeq(l, 1, ShortLen)
            ELSE l \o LongTail]

RECURSIVE JoinLines(_)
JoinLines(ls) == IF ls = <<>> THEN "" ELSE "\n" \o Head(ls) \o JoinLines(Tail(ls))

\* the text of table t
Render(t) ==
    SubSeq(TableHead, 1, Len(TableHead) - 1) \o JoinLines(FwLines(t))
        \o (IF t.newline THEN "\n" ELSE "")

InitParse ==
    /\ Constructed /\ NoJobs
    /\ fw_table \in FwTables
    /\ fw_string = Render(fw_table)
    /\ fw_out = [done |-> FALSE, err |-> "none", rows |-> <<>>]

\* parse_fw(string) is called and returns or raises
ParseFw ==
    /\ ~fw_out.done
    /\ fw_out' = [done |-> TRUE, err |-> parse_fw(fw_string).err,
                  rows |-> parse_fw(fw_string).rows]
    /\ UNCHANGED <<fw_table, fw_string, OneJob, TwoJobs>>

NextParse == ParseFw

SpecParse == InitParse /\ [][NextParse]_vars

-----------------------------------------------------------------------------
(* Vocabulary of the properties. *)

\* the status queries of the current call, in the order they were issued
Queries == SelectSeq(log, IsQuery)

\* the rows of a response that carry exactly the identifier jid
RowsOf(out, jid) ==
    LET rows == ParseOf[out].rows
    IN  {i \in 1..Len(rows) : "JobID" \in DOMAIN rows[i] /\ rows[i]["JobID"] = jid}

\* the poll loop was left without a match: by exhaustion, or never entered
GaveUp == pc = "L125" /\ (result.kind = "unbound" \/ (result.kind = "list" /\ result.val = <<>>))

\* the poll loop was left by the break of line 123, result[-1] was taken
PollFound == result.kind = "row"

BatchOnlyResponse == TableHead \o Row("99", "RUNNING") \o Row("77.batch", "COMPLETED")
SubStepResponse ==
    TableHead \o Row("77", "RUNNING") \o Row("77.batch", "RUNNING") \o Row("77", "COMPLETED")

-----------------------------------------------------------------------------
\* C1: when no status query of the attempt budget returned a matching row,
\* polling ends in PollTimeoutError; it never goes on to index the empty
\* list of matches (or a list that was never bound, with a budget of zero).
C1_TimeoutIsPollTimeoutError == (GaveUp /\ Ended) => raised = "PollTimeoutError"

-----------------------------------------------------------------------------
\* C2 as stated: with positive timeout and poll interval, a poller that gives
\* up for lack of a match has issued exactly ceil(timeout / poll_interval)
\* status queries.
C2_CeilQueriesOnGiveUp ==
    (GaveUp /\ poll_delay > 0 /\ timeout_sec > 0) =>
        /\ NumQueries * poll_delay >= timeout_sec
        /\ (NumQueries - 1) * poll_delay < timeout_sec

\* C2 amended: a poller that gives up for lack of a match has issued exactly
\* floor(timeout / poll_interval) status queries: the largest n such that
\* n * poll_interval <= timeout, which is zero when timeout < poll_interval.
C2_FloorQueriesOnGiveUp ==
    (GaveUp /\ poll_delay > 0) =>
        /\ NumQueries * poll_delay <= timeout_sec
        /\ (NumQueries + 1) * poll_delay > timeout_sec
        /\ \A i \in 1..Len(Queries) : RowsOf(Queries[i].out, job_id) = {}

\* a give-up where the timeout is not a multiple of the interval
C2_Witness ==
    GaveUp /\ raised = "IndexError" /\ timeout_sec = 3 /\ poll_delay = 2 /\ NumQueries = 1

-----------------------------------------------------------------------------
\* C3: at every moment of a call the number of status queries issued so far
\* is at most timeout / poll_interval, whatever sacct answered.
C3_QueriesWithinBudget == NumQueries * poll_delay <= timeout_sec

\* the whole budget was used: three queries with timeout 3 and interval 1
C3_Witness == NumQueries = 3 /\ timeout_sec = 3 /\ poll_delay = 1 /\ pc = "L124"

-----------------------------------------------------------------------------
\* C4: when polling found a match, the k queries issued are exactly the
\* attempts up to the first one whose response holds a matching row (none of
\* the k-1 earlier responses holds one, none was issued after it, k is within
\* the budget) and the row taken is the last matching row of the k-th response.
C4_StopsAtFirstMatchReturnsLast ==
    PollFound =>
        LET k    == Len(Queries)
            rows == ParseOf[Queries[k].out].rows
            hits == RowsOf(Queries[k].out, job_id)
        IN  /\ k >= 1 /\ k = attempt /\ k * poll_delay <= timeout_sec
            /\ \A i \in 1..(k - 1) : RowsOf(Queries[i].out, job_id) = {}
            /\ hits # {}
            /\ \E i \in hits : (\A j \in hits : j <= i) /\ result.val = <<rows[i]>>
            /\ (pc = "done" /\ call = "poll_job") => (retval.kind = "row" /\ retval.val = result.val)

\* the third response is the first with a match and holds two matching rows
\* whose states differ: the row taken is the later one
C4_Witness ==
    /\ PollFound /\ Len(Queries) = 3 /\ job_id = "77"
    /\ Queries[3].out = SubStepResponse
    /\ result.val[1]["State"] = "COMPLETED"

-----------------------------------------------------------------------------
\* C5 as stated: a response whose only rows for job 77 carry the identifier
\* "77.batch" counts as a match: after it the list of matches is not empty.
C5_SubStepSuffixMatches ==
    (job_id = "77" /\ NumQueries > 0 /\ stdout = BatchOnlyResponse /\ result.kind = "list")
        => result.val # <<>>

\* C5 amended: a row matches exactly when its job-identifier column, stripped
\* of its padding, is the scheduler identifier itself; the rows kept after a
\* query are those rows of the response, in order, and a response whose only
\* rows for job 77 are "77.batch" rows leaves no match.
C5_ExactIdentifierMatches ==
    (NumQueries > 0 /\ result.kind = "list" /\ raised = "none") =>
        LET rows == ParseOf[stdout].rows
        IN  /\ \A i \in 1..Len(result.val) : result.val[i]["JobID"] = job_id
            /\ Len(result.val) = Cardinality(RowsOf(stdout, job_id))
            /\ \A i \in 1..Len(result.val) : \E j \in RowsOf(stdout, job_id) : rows[j] = result.val[i]
            /\ (job_id = "77" /\ stdout = BatchOnlyResponse) => result.val = <<>>

\* the "77.batch" response was received for job 77 and the poller sleeps on
C5_Witness ==
    job_id = "77" /\ stdout = BatchOnlyResponse /\ pc = "L124" /\ result.val = <<>>

-----------------------------------------------------------------------------
(* Steps, for the properties of single steps. *)

\* the step that issues the sbatch command and handles its output
SubmitStep == pc = "L107" /\ Running /\ Len(log') = Len(log) + 1

\* the caller starts another call on the Job
CallStep == calls' = calls + 1

\* out is the acknowledgment of identifier id: the prefix, the digits of id,
\* then the end of the output or something that is not a digit
Acknowledges(out, id) ==
    /\ id # "" /\ \A i \in 1..Len(id) : CharAt(id, i) \in Digits
    /\ startswith(out, AckPrefix \o id)
    /\ \/ Len(out) = Len(AckPrefix) + Len(id)
       \/ CharAt(out, Len(AckPrefix) + Len(id) + 1) \notin Digits

\* identifiers the outputs of the model can acknowledge
AckIds == {Dec(n) : n \in 0..99} \cup {"4821"}

-----------------------------------------------------------------------------
\* C6: the step that submits sets job_id to <id> exactly when the output of
\* sbatch is the acknowledgment "Submitted batch job <id>"; on any other
\* output it raises the submission error (RuntimeError, line 110), whose
\* message carries the raw output, and job_id is left as it was (unset in a
\* first submission).
C6_SubmitSetsIdOrFails ==
    [][SubmitStep =>
        LET out == stdout'
        IN  /\ out = log'[Len(log')].out
            /\ \A id \in AckIds : Acknowledges(out, id) =>
                   (job_id' = id /\ raised' = "none" /\ pc' # "L107")
            /\ (\A id \in AckIds : ~Acknowledges(out, id)) =>
                   /\ raised' = "RuntimeError"
                   /\ errmsg' = "Batch submission failed with: " \o out
                   /\ job_id' = job_id
                   /\ pc' = "L107"
            /\ out = "Permission denied\n" => (raised' = "RuntimeError" /\ job_id' = job_id)
            /\ out = "" => (raised' = "RuntimeError" /\ job_id' = job_id)
            /\ out = "Submitted batch job 77\n" => job_id' = "77"
            /\ re_match_ack("Submitted batch job 4821") = "4821"
            /\ re_match_ack("Permission denied") = None
      ]_vars

\* a first submission was refused: the error carries the output, no identifier
C6_Witness ==
    /\ pc = "L107" /\ raised = "RuntimeError" /\ job_id = None /\ calls = 1
    /\ stdout = "Permission denied\n"
    /\ errmsg = "Batch submission failed with: Permission denied\n"

-----------------------------------------------------------------------------
(* The states of the Job state machine, read off the position of the run. *)

JobState ==
    IF raised # "none"
    THEN CASE pc = "L107" -> "SubmissionFailed"
           [] pc = "L125" -> "PollTimedOut"
           [] pc = "L154" -> "RetrievalFailed"
           [] OTHER       -> "Failed"
    ELSE CASE pc = "L129"                      -> "Created"
           [] pc \in {"L144", "L92"}           -> "Packaged"
           [] pc = "L107"                      -> "Uploaded"
           [] pc = "L116"                      -> "Submitted"
           [] pc \in {"L118", "L124", "L125"}  -> "Polling"
           [] pc \in {"L152", "L153", "L154"}  -> "Retrieving"
           [] pc = "done"                      -> "Completed"
           [] OTHER                            -> "Idle"

Terminal == {"Completed", "PollTimedOut", "SubmissionFailed", "RetrievalFailed", "Failed"}

StateRank(st) ==
    CASE st = "Idle" -> 0 [] st = "Created" -> 1 [] st = "Packaged" -> 2
      [] st = "Uploaded" -> 3 [] st = "Submitted" -> 4 [] st = "Polling" -> 5
      [] st = "Retrieving" -> 6 [] OTHER -> 7

\* the remote operations of the current call, sleeps left out
RemoteOps == SelectSeq(log, IsRemote)

OpRank(e) ==
    CASE IsUpload(e) -> 1 [] IsSubmit(e) -> 2 [] IsQuery(e) -> 3 [] IsDownload(e) -> 4 [] OTHER -> 0

InputPath == PathJoin(RemoteDir, remote_name(JobUid))
SlurmPath == PathJoin(RemoteDir, slurm_remote_input_name(JobUid))

-----------------------------------------------------------------------------
\* C7: a remote operation that fails aborts the pipeline: no sbatch command
\* is issued after a failed upload, and a call in which a status query or the
\* download failed does not return a value as if it had succeeded.
C7_RemoteFailureAborts ==
    /\ \A i, j \in 1..Len(log) :
           (i < j /\ IsUpload(log[i]) /\ ~log[i].ok) => ~IsSubmit(log[j])
    /\ (\E i \in 1..Len(log) : (IsQuery(log[i]) \/ IsDownload(log[i])) /\ ~log[i].ok)
           => ~(pc = "done" /\ retval.kind \in {"row", "text"})

-----------------------------------------------------------------------------
\* C8: a run moves only forward through Created, Packaged, Uploaded,
\* Submitted, Polling and retrieval to a terminal state: its remote
\* operations are, in order, the upload of the script, the upload of the
\* slurm script, one sbatch command, the status queries, one download; a
\* terminal state is entered from the phase it belongs to; and in a terminal
\* state nothing happens until the caller makes another call.
C8_OrderOfRun ==
    call = "run" =>
        LET ops == RemoteOps
        IN  /\ \A i, j \in 1..Len(ops) : i < j => OpRank(ops[i]) <= OpRank(ops[j])
            /\ \A i \in 1..Len(ops) : IsUpload(ops[i]) =>
                   /\ i <= 2
                   /\ ops[i].arg = (IF i = 1 THEN InputPath ELSE SlurmPath)
            /\ \A i \in 1..Len(ops) : IsSubmit(ops[i]) => i = 3
            /\ \A i \in 1..Len(ops) : IsQuery(ops[i]) => i > 3
            /\ \A i \in 1..Len(ops) : IsDownload(ops[i]) => (i = Len(ops) /\ i > 4)
            /\ JobState \in Terminal \ {"Completed"} => retval.kind = "nothing"

C8_StepOfRun ==
    (call = "run" /\ ~CallStep) =>
        /\ JobState \notin Terminal
        /\ StateRank(JobState') >= StateRank(JobState)
        /\ StateRank(JobState') <= StateRank(JobState) + 1 \/ JobState' \in Terminal
        /\ JobState' = "SubmissionFailed" => JobState = "Uploaded"
        /\ JobState' = "PollTimedOut" => JobState = "Polling"
        /\ JobState' \in {"RetrievalFailed", "Completed"} => JobState = "Retrieving"

C8_RunMovesForward == [](C8_OrderOfRun) /\ [][C8_StepOfRun]_vars

\* a run that went through every phase: two status queries, then the download
C8_Witness ==
    /\ call = "run" /\ JobState = "Completed" /\ retval.kind = "text"
    /\ NumQueries = 2 /\ Len(RemoteOps) = 6

-----------------------------------------------------------------------------
\* C9 as stated: once job_id is set, no later step of any call on the Job
\* changes it.
C9_IdNeverChanges == [][job_id # None => job_id' = job_id]_vars

\* C9 amended: once job_id is set, poll_job, the settle delay, the
\* retrieval, a refused submission and the start of another call leave it as
\* it is; the only step that changes it is a further successful submission
\* (submit_job or run called again on the Job), which replaces it by the
\* identifier newly acknowledged.
C9_IdChangesOnlyBySubmit ==
    [][(job_id # None /\ job_id' # job_id) =>
           /\ SubmitStep /\ calls > 1
           /\ \E id \in AckIds : Acknowledges(stdout', id) /\ job_id' = id
      ]_vars

\* the identifier set by the first call is still there after a later poll_job
C9_Witness ==
    calls = 2 /\ call = "poll_job" /\ pc = "done" /\ retval.kind = "row" /\ job_id = "77"

-----------------------------------------------------------------------------
\* C10: within one call the sbatch command is issued at most once; it is
\* never issued after a status query; nothing follows an sbatch command whose
\* output was not an acknowledgment; and after an exception (a refused
\* submission, a poll that found nothing) the call issues nothing more.
C10_LogHasOneSubmit ==
    /\ NumSubmits <= 1
    /\ \A i, j \in 1..Len(log) : (i < j /\ IsQuery(log[i])) => ~IsSubmit(log[j])
    /\ \A i \in 1..Len(log) :
           (IsSubmit(log[i]) /\ \A id \in AckIds : ~Acknowledges(log[i].out, id)) => i = Len(log)

C10_NoResubmission ==
    [](C10_LogHasOneSubmit) /\ [][(raised # "none" /\ ~CallStep) => log' = log]_vars

\* a run whose poll found nothing: one sbatch command, none after the timeout
C10_Witness ==
    call = "run" /\ GaveUp /\ raised = "IndexError" /\ NumSubmits = 1 /\ NumQueries = 3

-----------------------------------------------------------------------------
\* C11: in a run, the download is issued only after the poller has returned
\* a matching row and the settle delay has then been slept in full: the
\* entry before the download is a sleep of write_delay seconds, the entry
\* before that sleep is the status query whose response held the row of the
\* job; and the value returned to the caller is the whole text of the file
\* that was downloaded.
C11_DownloadAfterSettle ==
    /\ \A i \in 1..Len(log) : IsDownload(log[i]) =>
           /\ i > 2
           /\ IsSleep(log[i-1]) /\ log[i-1].secs = write_delay
           /\ IsQuery(log[i-2]) /\ RowsOf(log[i-2].out, job_id) # {}
           /\ PollFound
    /\ (call = "run" /\ pc = "done") =>
           /\ IsDownload(log[Len(log)]) /\ log[Len(log)].ok
           /\ local_file = RemoteFile(log[Len(log)].arg)
           /\ retval = RetText(local_file)

\* a run that returned the text of the file it downloaded
C11_Witness ==
    /\ call = "run" /\ pc = "done" /\ retval = RetText(RemoteFile(slurm_log_path("77")))
    /\ IsDownload(log[Len(log)]) /\ IsSleep(log[Len(log) - 1])

-----------------------------------------------------------------------------
\* C12: when the poller returned a matching row but the file to retrieve is
\* not there (the copy of line 153 brings nothing back), the run returns no
\* content: it ends in the retrieval failure raised at line 154, which is
\* neither a return nor the failure of a poll that found nothing.
FailedDownload == \E i \in 1..Len(log) : IsDownload(log[i]) /\ ~log[i].ok

C12_MissingArtifactFailsRetrieval ==
    FailedDownload =>
        /\ local_file = Missing
        /\ pc = "L154" /\ retval = RetNothing
        /\ PollFound /\ ~GaveUp
        /\ raised \in {"none", "FileNotFoundError"}
        /\ Ended => (raised = "FileNotFoundError" /\ JobState = "RetrievalFailed")

\* a run stopped at line 154 after a matching row and a copy that failed
C12_Witness ==
    /\ call = "run" /\ FailedDownload /\ raised = "FileNotFoundError"
    /\ RowsOf(stdout, job_id) # {}

-----------------------------------------------------------------------------
\* a parsed response none of whose rows is a row of job jid
NonMatching(out, jid) ==
    /\ ParseOf[out].err = "none"
    /\ \A i \in 1..Len(ParseOf[out].rows) : "JobID" \in DOMAIN ParseOf[out].rows[i]
    /\ RowsOf(out, jid) = {}

\* the end-to-end scenario: sbatch acknowledged with identifier 77, no remote
\* operation failed, the first two status queries held no row of job 77 and
\* the third did
EndToEndScenario ==
    /\ call = "run" /\ job_id = "77"
    /\ ~\E i \in 1..Len(log) : Failed(log[i])
    /\ \E i \in 1..Len(log) : IsSubmit(log[i]) /\ Acknowledges(log[i].out, "77")
    /\ Len(Queries) >= 3
    /\ NonMatching(Queries[1].out, "77") /\ NonMatching(Queries[2].out, "77")
    /\ RowsOf(Queries[3].out, "77") # {}

\* C13 as stated: in the end-to-end scenario the run issues exactly three
\* status queries and, once ended, is Completed and has returned the content
\* of the output artifact alcyone_out_<U>.dat written by the packaged
\* computation.
C13_EndToEndReturnsArtifact ==
    EndToEndScenario =>
        /\ NumQueries = 3
        /\ raised = "none"
        /\ Ended => (JobState = "Completed" /\ retval = RetText(RemoteFile(OutPath)))

-----------------------------------------------------------------------------
\* the remote paths job j has written
PathsOf(j) == {w.path : w \in {x \in remote : x.job = j}}

\* no remote file has been written by both Jobs
DisjointPaths == PathsOf(1) \cap PathsOf(2) = {}

\* C14 as stated: every remote file a Job writes is named from its
\* identifier U as alcyone_in_<U>.py, alcyone_out_<U>.dat or
\* <input-name>.submit, and two Jobs with different identifiers never write
\* the same remote path, whatever the interleaving.
C14_SubmitNamesDisjoint ==
    /\ \A w \in remote :
           w.path \in {RemoteDir \o "/alcyone_in_" \o ids[w.job] \o ".py",
                       RemoteDir \o "/alcyone_out_" \o ids[w.job] \o ".dat",
                       RemoteDir \o "/alcyone_in_" \o ids[w.job] \o ".py" \o ".submit"}
    /\ DisjointPaths

\* C14 amended: the submission script is named <input-name>.slurm; every
\* remote file a Job writes is named from its identifier U as
\* alcyone_in_<U>.py, alcyone_out_<U>.dat or alcyone_in_<U>.py.slurm, and two
\* Jobs with different identifiers never write the same remote path,
\* whatever the interleaving.
C14_SlurmNamesDisjoint ==
    /\ \A w \in remote :
           w.path \in {RemoteDir \o "/alcyone_in_" \o ids[w.job] \o ".py",
                       RemoteDir \o "/alcyone_out_" \o ids[w.job] \o ".dat",
                       RemoteDir \o "/alcyone_in_" \o ids[w.job] \o ".py" \o ".slurm"}
    /\ DisjointPaths

\* both Jobs have run: six remote files, three of each
C14_Witness ==
    /\ \A j \in JobNos : lines_at[j] = "ran"
    /\ Cardinality(PathsOf(1)) = 3 /\ Cardinality(PathsOf(2)) = 3

-----------------------------------------------------------------------------
\* the table was printed with every data line padded to the column widths
Undamaged == fw_table.damage = "none"

\* the dict parse_fw is expected to make of row i of the table
RowDict(i) == [JobID |-> fw_table.rows[i][1], State |-> fw_table.rows[i][2]]

\* C15 as stated: for a table of N padded data lines, with or without a
\* trailing newline, parse_fw returns exactly N rows, row i mapping every
\* header name to the unpadded content of field i.
C15_RoundTripExactlyN ==
    (fw_out.done /\ Undamaged) =>
        /\ fw_out.err = "none"
        /\ Len(fw_out.rows) = Len(fw_table.rows)
        /\ \A i \in 1..Len(fw_table.rows) : fw_out.rows[i] = RowDict(i)

-----------------------------------------------------------------------------
\* C16 as stated: when a data line is shorter or longer than the total width
\* given by the line of dashes, parse_fw reports a MalformedTableError and
\* returns no rows: the line is never cut or padded into a row.
C16_DamagedLineIsRejected ==
    (fw_out.done /\ ~Undamaged) =>
        (fw_out.err = "MalformedTableError" /\ fw_out.rows = <<>>)

-----------------------------------------------------------------------------
\* the function cannot be packaged: its source cannot be recovered, or does
\* not begin with a definition
Unpackageable == function.source = NoSource \/ ~startswith(function.source, "def")

\* C17: packaging is validated before any network operation: a run on a
\* function whose source cannot be recovered or does not begin with "def"
\* never leaves line 129-130, ends there with the exception of packaging
\* and returns nothing, and no upload, sbatch command, status query or
\* download has been issued.
C17_PackagingBeforeNetwork ==
    (call = "run" /\ Unpackageable) =>
        /\ pc = "L129"
        /\ RemoteOps = <<>> /\ log = <<>>
        /\ retval = RetNothing
        /\ raised \in {"none", IF function.source = NoSource THEN "OSError" ELSE "AssertionError"}

\* a run on an indented method source, ended by the assertion of line 130
C17_Witness ==
    /\ call = "run" /\ function.name = "method" /\ Unpackageable
    /\ raised = "AssertionError" /\ log = <<>>

-----------------------------------------------------------------------------
\* the sleeps of the poll loop (line 124), as opposed to the settle delay
IsPollSleep(e) == IsSleep(e) /\ e.arg = "poll_delay"

RECURSIVE SumSecs(_)
SumSecs(es) == IF es = <<>> THEN 0 ELSE Head(es).secs + SumSecs(Tail(es))

\* seconds the poll loop of the current call has slept so far
SleptByPoller == SumSecs(SelectSeq(log, IsPollSleep))

\* C18: the poller paces itself: every status query that found no row of
\* the job is followed by one sleep of poll_delay seconds before anything
\* else, so two consecutive queries are separated by exactly that sleep; a
\* query that found a row is not followed by a sleep of the poll loop; and
\* the seconds slept by the poll loop never exceed timeout_sec, in particular
\* when it gives up.
C18_PacedBySleep ==
    /\ \A i \in 1..Len(log) : IsPollSleep(log[i]) =>
           /\ log[i].secs = poll_delay
           /\ i > 1 /\ IsQuery(log[i-1]) /\ NonMatching(log[i-1].out, job_id)
    /\ \A i \in 2..Len(log) : ~(IsQuery(log[i]) /\ IsQuery(log[i-1]))
    /\ \A i \in 2..Len(log) : (IsQuery(log[i]) /\ \E j \in 1..(i-1) : IsQuery(log[j])) =>
           (IsPollSleep(log[i-1]) /\ IsQuery(log[i-2]))
    /\ \A i \in 1..(Len(log) - 1) : (IsQuery(log[i]) /\ RowsOf(log[i].out, job_id) # {}) =>
           ~IsPollSleep(log[i+1])
    /\ SleptByPoller <= timeout_sec
    /\ GaveUp => SleptByPoller = NumQueries * poll_delay

\* a poll that gave up after three queries, each followed by its sleep, the
\* whole timeout slept
C18_Witness ==
    /\ GaveUp /\ NumQueries = 3 /\ Len(SelectSeq(log, IsPollSleep)) = 3
    /\ poll_delay = 1 /\ SleptByPoller = timeout_sec

-----------------------------------------------------------------------------
\* C19: polling requires a submitted Job.  poll_job called while job_id is
\* None stops at the assertion of line 116 with nothing issued; and a status
\* query, a sleep or a download is only ever issued with job_id set, in
\* run() only after an sbatch command of the same call was acknowledged
\* with that identifier: a refused submission is followed by nothing.
C19_PollNeedsSubmission ==
    /\ (call = "poll_job" /\ job_id = None) =>
           /\ pc = "L116" /\ log = <<>> /\ retval = RetNothing
           /\ raised \in {"none", "AssertionError"}
    /\ \A i \in 1..Len(log) : (IsQuery(log[i]) \/ IsSleep(log[i]) \/ IsDownload(log[i])) =>
           /\ job_id # None
           /\ call = "run" =>
                  \E j \in 1..(i-1) : /\ IsSubmit(log[j])
                                      /\ Acknowledges(log[j].out, job_id)
    /\ (call = "run" /\ raised = "RuntimeError") =>
           /\ IsSubmit(log[Len(log)])
           /\ \A i \in 1..Len(log) : ~(IsQuery(log[i]) \/ IsSleep(log[i]) \/ IsDownload(log[i]))

\* poll_job called on a Job never submitted, stopped by the assertion
C19_Witness ==
    call = "poll_job" /\ job_id = None /\ raised = "AssertionError" /\ log = <<>>

-----------------------------------------------------------------------------
\* the header and the line of dashes, no data line and no final newline
NoDataResponse == "JobID    State     \n-------- ---------"

\* the last status query of the log came back without a row of the job
LastQueryEmpty ==
    /\ NumQueries > 0
    /\ NonMatching(Queries[NumQueries].out, job_id)

\* C20: a response with the header and the line of dashes but no row of the
\* job (no data line, only the empty line after a final newline, only rows
\* of other jobs) is an attempt without a match and nothing more: the query
\* leaves an empty list of matches and raises nothing; the poller then
\* sleeps poll_delay and, while attempts remain, issues the next query; it
\* leaves the loop without a match only when the attempts are used up.
C20_EmptyResponseState ==
    LastQueryEmpty =>
        /\ result = ResultList(<<>>)
        /\ IsQuery(log[Len(log)]) => (pc = "L124" /\ raised = "none")
        /\ ~IsQuery(log[Len(log)]) => (IsPollSleep(log[Len(log)]) /\ pc \in {"L118", "L125"})
        /\ pc = "L125" => attempt >= PollBudget
        /\ raised # "none" => (pc = "L125" /\ attempt >= PollBudget)

C20_EmptyResponseStep ==
    (LastQueryEmpty /\ Running /\ ~CallStep) =>
        /\ pc = "L124" => (pc' = "L118" /\ IsPollSleep(log'[Len(log')]))
        /\ (pc = "L118" /\ attempt < PollBudget) =>
               (NumQueries' = NumQueries + 1 /\ IsQuery(log'[Len(log')]))

C20_EmptyResponseIsNoMatch == [](C20_EmptyResponseState) /\ [][C20_EmptyResponseStep]_vars

\* the three kinds of response without a row of job 77, one after the
\* other, the poller about to sleep after the third
C20_Witness ==
    /\ job_id = "77" /\ NumQueries = 3 /\ pc = "L124" /\ raised = "none"
    /\ Queries[1].out = NoDataResponse
    /\ Queries[2].out = TableHead
    /\ Queries[3].out = BatchOnlyResponse

====
